---- MODULE Spec2Model ----
(***************************************************************************)
(* The feed generation of the blog: getPosts scans ./public/, reads every  *)
(* post directory's index.md concurrently (Promise.all), parses the        *)
(* front-matter, merges it with the slug and sorts by date; generateFeed   *)
(* awaits getPosts and adds one feed item per post.                        *)
(*                                                                         *)
(* A state holds the file system (fixed during a run) and, for every       *)
(* invocation of generateFeed, the promises it is waiting on.  One action  *)
(* is one turn of the JavaScript event loop: a callback runs to completion *)
(* before the next one starts.                                             *)
(***************************************************************************)
EXTENDS Integers, Sequences, FiniteSets, TLC

VARIABLES
    root,          \* the listing of ./public/ in directory-scan order
    files,         \* directory name -> what ./public/<dir>/index.md holds
    calls,         \* the invocations of generateFeed made in this run
    pc,            \* per invocation: the await it is suspended at
    dirs,          \* per invocation: const dirs of getPosts
    reads,         \* per invocation: the readFile promises, by index
    allPromise,    \* per invocation: the Promise.all over the reads
    postsPromise,  \* per invocation: the promise getPosts() returned
    feedPromise    \* per invocation: the promise generateFeed() returned

vars == <<root, files, calls, pc, dirs, reads, allPromise, postsPromise, feedPromise>>

-----------------------------------------------------------------------------
(* Bounds and fixtures *)

\* Longest listing of ./public/ explored with one invocation.
MaxEntries == 3

\* Longest listing of ./public/ explored with two overlapping invocations.
MaxEntriesConc == 2

DirNames == {"a", "new", "old"}

FileNames == {"icon.jpeg"}

ConcCalls == {1, 2}

-----------------------------------------------------------------------------
(* JavaScript values *)

\* The value of a property an object does not have; also its ToString.
Undefined == "undefined"

\* obj[k] of a plain object
Get(obj, k) == IF k \in DOMAIN obj THEN obj[k] ELSE Undefined

NaN == [nan |-> TRUE, v |-> 0]

Num(n) == [nan |-> FALSE, v |-> n]

\* x < y on Numbers: false as soon as one side is NaN
JsLess(x, y) == ~x.nan /\ ~y.nan /\ x.v < y.v

\* Date.parse, in days since the epoch (every fixture date is a UTC midnight):
\* the date-only and the full ISO form of one day parse to the same number,
\* anything that is not a date (undefined included) to NaN.
DateParse(s) ==
    CASE s = "2023-01-01" -> Num(19358)
      [] s = "2024-01-01" -> Num(19723)
      [] s = "2024-01-01T00:00:00.000Z" -> Num(19723)
      [] s = "2024-06-01" -> Num(19875)
      [] s = "2026-01-17" -> Num(20470)
      [] OTHER -> NaN

\* new Date(value): a Date object holding the parsed time value (Invalid Date
\* holds NaN)
NewDate(s) == [time |-> DateParse(s)]

Pending == [state |-> "pending"]

Fulfilled(v) == [state |-> "fulfilled", value |-> v]

Rejected(e) == [state |-> "rejected", reason |-> e]

Range(s) == {s[i] : i \in 1..Len(s)}

-----------------------------------------------------------------------------
(* The file system *)

Dirent(n) == [name |-> n, isDirectory |-> n \in DirNames]

\* An index.md: its front-matter block (well-formed YAML or not) and its body.
Markdown(ok, data) == [yaml |-> ok, data |-> data, body |-> "## Introduction"]

\* No index.md in the directory.
Missing == [enoent |-> TRUE]

FmA == Markdown(TRUE, [title |-> "A", date |-> "2024-01-01", spoiler |-> "S"])

FmOld == Markdown(TRUE, [title |-> "Old", date |-> "2023-01-01", spoiler |-> "S"])

FmNew == Markdown(TRUE, [title |-> "New", date |-> "2024-06-01", spoiler |-> "S"])

FmIso == Markdown(TRUE, [title |-> "B", date |-> "2024-01-01T00:00:00.000Z", spoiler |-> "T"])

\* The post of this repository: a title and a date, no spoiler.
FmSuspense == Markdown(TRUE, [title |-> "How Suspense Works in React, Vue", date |-> "2026-01-17"])

\* Neither title nor date.
FmDraft == Markdown(TRUE, [spoiler |-> "wip"])

\* A front-matter that carries a slug key of its own.
FmAlias == Markdown(TRUE, [slug |-> "a", title |-> "Alias", date |-> "2023-01-01", spoiler |-> "S"])

FmBroken == Markdown(FALSE, [title |-> "unterminated"])

Catalogue == {Missing, FmA, FmOld, FmNew, FmIso, FmSuspense, FmDraft, FmAlias, FmBroken}

\* The sequences without repetition over S of length at most n.
RECURSIVE Listings(_, _)
Listings(S, n) ==
    IF n = 0 THEN {<<>>}
    ELSE LET shorter == Listings(S, n - 1)
         IN  shorter \cup {Append(l, x) : l \in shorter, x \in S}

Injective(l) == \A i, j \in 1..Len(l) : i # j => l[i] # l[j]

\* withFileTypes listings of ./public/ of at most n entries
RootListings(n) ==
    {[i \in 1..Len(l) |-> Dirent(l[i])] :
        l \in {m \in Listings(DirNames \cup FileNames, n) : Injective(m)}}

READDIR_PATH == "./public/"

\* Mutant of ReadFile: a failed read is swallowed and yields an empty document.
ReadFileOrEmpty(dir) ==
    IF dir \in DOMAIN files /\ files[dir] # Missing
    THEN Fulfilled(files[dir])
    ELSE Fulfilled(Markdown(TRUE, [x \in {} |-> ""]))

\* readFile(path, "utf8") of ./public/<dir>/index.md: the text, or the error
\* the promise rejects with.
ReadFile(dir) ==
    IF dir \in DOMAIN files /\ files[dir] # Missing
    THEN Fulfilled(files[dir])
    ELSE Rejected([code |-> "ENOENT", path |-> READDIR_PATH \o dir \o "/index.md"])

-----------------------------------------------------------------------------
(* getPosts *)

\* Mutant of DirectoryNames: the isDirectory filter is left out.
EntryNames(entries) == [i \in 1..Len(entries) |-> entries[i].name]

\* entries.filter((entry) => entry.isDirectory()).map((entry) => entry.name)
DirectoryNames(entries) ==
    LET F[i \in 0..Len(entries)] ==
            IF i = 0 THEN <<>>
            ELSE IF entries[i].isDirectory THEN Append(F[i - 1], entries[i].name)
            ELSE F[i - 1]
    IN  F[Len(entries)]

\* A slot of Promise.all's values list that no element has resolved yet.
Hole == [hole |-> TRUE]

\* Promise.all(promises) over n promises: fulfilled at once when n = 0.
PromiseAll(n) ==
    [state |-> IF n = 0 THEN "fulfilled" ELSE "pending",
     values |-> [i \in 1..n |-> Hole],
     remaining |-> n,
     reason |-> Hole]

\* Mutant of ResolveElement: the first fulfilled element fulfils the promise
\* (Promise.any).
ResolveElementAny(all, i, v) ==
    [all EXCEPT !.values[i] = v,
                !.remaining = @ - 1,
                !.state = IF @ = "pending" THEN "fulfilled" ELSE @]

\* Mutant of ResolveElement: the value is pushed in completion order instead of
\* being stored at its index.
ResolveElementPush(all, i, v) ==
    LET slot == CHOOSE j \in 1..Len(all.values) :
                    /\ all.values[j] = Hole
                    /\ \A m \in 1..(j - 1) : all.values[m] # Hole
    IN  [all EXCEPT !.values[slot] = v,
                    !.remaining = @ - 1,
                    !.state = IF @ = "pending" /\ all.remaining = 1 THEN "fulfilled" ELSE @]

\* Promise.all's resolve-element function for index i: the value goes to slot
\* i whatever the order of completion; the last one fulfils the promise.
ResolveElement(all, i, v) ==
    [all EXCEPT !.values[i] = v,
                !.remaining = @ - 1,
                !.state = IF @ = "pending" /\ all.remaining = 1 THEN "fulfilled" ELSE @]

\* Promise.all's reject function: the first rejection settles the promise,
\* later ones are ignored.
RejectElement(all, e) ==
    IF all.state = "pending"
    THEN [all EXCEPT !.state = "rejected", !.reason = e]
    ELSE all

\* Mutant of Matter: a front-matter without title, date or spoiler is refused.
MatterValidated(fileContent) ==
    IF /\ "yaml" \in DOMAIN fileContent
       /\ fileContent.yaml
       /\ {"title", "date", "spoiler"} \subseteq DOMAIN fileContent.data
    THEN [threw |-> FALSE, data |-> fileContent.data, content |-> fileContent.body]
    ELSE [threw |-> TRUE, error |-> [code |-> "YAMLException", path |-> ""]]

\* matter(fileContent): the front-matter as an object; the YAML parser throws
\* on a malformed block (and on anything that is not a document).
Matter(fileContent) ==
    IF "yaml" \in DOMAIN fileContent /\ fileContent.yaml
    THEN [threw |-> FALSE, data |-> fileContent.data, content |-> fileContent.body]
    ELSE [threw |-> TRUE, error |-> [code |-> "YAMLException", path |-> ""]]

\* { slug, ...data }: the spread comes second, so a key of data wins
Merge(slug, data) ==
    [key \in {"slug"} \cup DOMAIN data |->
        IF key \in DOMAIN data THEN data[key] ELSE slug]

\* Mutant of Compare: the comparison is turned around (oldest first).
CompareAscending(a, b) ==
    IF JsLess(DateParse(Get(b, "date")), DateParse(Get(a, "date"))) THEN 1 ELSE -1

\* (a, b) => Date.parse(a.date) < Date.parse(b.date) ? 1 : -1
Compare(a, b) ==
    IF JsLess(DateParse(Get(a, "date")), DateParse(Get(b, "date"))) THEN 1 ELSE -1

Reverse(s) == [i \in 1..Len(s) |-> s[Len(s) + 1 - i]]

\* Array.prototype.sort, as the engine runs it on a short array (one run of
\* TimSort): the leading run is counted, reversed if it descends, and every
\* later element is placed by binary insertion.
RECURSIVE RunLength(_, _, _)
RunLength(arr, isDescending, idx) ==
    IF idx > Len(arr) THEN idx - 1
    ELSE LET order == Compare(arr[idx], arr[idx - 1])
         IN  IF (isDescending /\ order >= 0) \/ (~isDescending /\ order < 0)
             THEN idx - 1
             ELSE RunLength(arr, isDescending, idx + 1)

CountAndMakeRun(arr) ==
    LET isDescending == Compare(arr[2], arr[1]) < 0
        runLength == RunLength(arr, isDescending, 3)
    IN  [run |-> runLength,
         arr |-> IF isDescending
                 THEN Reverse(SubSeq(arr, 1, runLength)) \o SubSeq(arr, runLength + 1, Len(arr))
                 ELSE arr]

RECURSIVE InsertionPoint(_, _, _, _)
InsertionPoint(arr, pivot, left, right) ==
    IF left >= right THEN left
    ELSE LET mid == left + ((right - left) \div 2)
         IN  IF Compare(pivot, arr[mid]) < 0
             THEN InsertionPoint(arr, pivot, left, mid)
             ELSE InsertionPoint(arr, pivot, mid + 1, right)

RECURSIVE BinaryInsertionSort(_, _)
BinaryInsertionSort(arr, start) ==
    IF start > Len(arr) THEN arr
    ELSE LET pivot == arr[start]
             left == InsertionPoint(arr, pivot, 1, start)
         IN  BinaryInsertionSort(
                 SubSeq(arr, 1, left - 1) \o <<pivot>> \o SubSeq(arr, left, start - 1)
                     \o SubSeq(arr, start + 1, Len(arr)),
                 start + 1)

ArraySort(arr) ==
    IF Len(arr) < 2 THEN arr
    ELSE LET made == CountAndMakeRun(arr)
         IN  BinaryInsertionSort(made.arr, made.run + 1)

\* getPosts after the await of Promise.all: parse, merge, sort, return; a
\* throw of matter rejects the promise getPosts returned.
GetPostsBody(dirList, fileContents) ==
    LET parsed == [i \in 1..Len(dirList) |-> Matter(fileContents[i])]
        bad == {i \in 1..Len(dirList) : parsed[i].threw}
    IN  IF bad # {}
        THEN Rejected(parsed[CHOOSE i \in bad : \A j \in bad : i <= j].error)
        ELSE Fulfilled(ArraySort([i \in 1..Len(dirList) |-> Merge(dirList[i], parsed[i].data)]))

-----------------------------------------------------------------------------
(* generateFeed *)

site_url == "https://github.psriram.com/"

metadata == [title |-> "dragon-slayer - A blog by Sriram", description |-> "A blog by Sriram"]

feedOptions ==
    [author |-> [name |-> "Sriram Prasanth", link |-> site_url],
     description |-> metadata.description,
     favicon |-> site_url \o "/icon.jpeg",
     feedLinks |-> [atom |-> site_url \o "atom.xml", rss |-> site_url \o "rss.xml"],
     generator |-> "Feed for Node.js",
     id |-> site_url,
     image |-> "https://avatars.githubusercontent.com/u/141391722",
     link |-> site_url,
     title |-> metadata.title]

\* Mutant of NewFeed: one module-level feed object that every invocation adds to.
SharedFeed(k) ==
    IF \E j \in calls \ {k} : feedPromise[j].state = "fulfilled"
    THEN feedPromise[CHOOSE j \in calls \ {k} : feedPromise[j].state = "fulfilled"].value
    ELSE [options |-> feedOptions, items |-> <<>>]

\* new Feed(feedOptions) of invocation k: a feed of its own, without items
NewFeed(k) == [options |-> feedOptions, items |-> <<>>]

\* Mutant of FeedItem: the link loses its trailing slash and the description
\* takes the title.
FeedItemSloppy(post) ==
    [date |-> NewDate(Get(post, "date")),
     description |-> Get(post, "title"),
     id |-> site_url \o Get(post, "slug"),
     link |-> site_url \o Get(post, "slug"),
     title |-> Get(post, "title")]

\* The item generateFeed builds for one post.
FeedItem(post) ==
    [date |-> NewDate(Get(post, "date")),
     description |-> Get(post, "spoiler"),
     id |-> site_url \o Get(post, "slug") \o "/",
     link |-> site_url \o Get(post, "slug") \o "/",
     title |-> Get(post, "title")]

\* feed.addItem(item)
AddItem(feed, item) == [feed EXCEPT !.items = Append(@, item)]

\* Mutant of AddItems: a post whose id is already in the feed is skipped.
RECURSIVE AddItemsDeduplicated(_, _)
AddItemsDeduplicated(feed, posts) ==
    IF posts = <<>> THEN feed
    ELSE IF \E i \in 1..Len(feed.items) : feed.items[i].id = FeedItem(Head(posts)).id
    THEN AddItemsDeduplicated(feed, Tail(posts))
    ELSE AddItemsDeduplicated(AddItem(feed, FeedItem(Head(posts))), Tail(posts))

\* for (const post of posts) feed.addItem({...})
RECURSIVE AddItems(_, _)
AddItems(feed, posts) ==
    IF posts = <<>> THEN feed
    ELSE AddItems(AddItem(feed, FeedItem(Head(posts))), Tail(posts))

-----------------------------------------------------------------------------
(* The event loop *)

InitCalls(ids) ==
    /\ calls = ids
    /\ pc = [k \in ids |-> "start"]
    /\ dirs = [k \in ids |-> <<>>]
    /\ reads = [k \in ids |-> <<>>]
    /\ allPromise = [k \in ids |-> PromiseAll(0)]
    /\ postsPromise = [k \in ids |-> Pending]
    /\ feedPromise = [k \in ids |-> Pending]

InitFiles(n) ==
    /\ root \in RootListings(n)
    /\ files \in [Range(DirectoryNames(root)) -> Catalogue]

\* One invocation on any file system of at most MaxEntries entries.
Init == InitFiles(MaxEntries) /\ InitCalls({1})

\* Two invocations on any file system of at most MaxEntriesConc entries.
InitConc == InitFiles(MaxEntriesConc) /\ InitCalls(ConcCalls)

\* generateFeed() is called: it calls getPosts(), which issues readdir and
\* suspends.
Call(k) ==
    /\ pc[k] = "start"
    /\ pc' = [pc EXCEPT ![k] = "readdir"]
    /\ UNCHANGED <<root, files, calls, dirs, reads, allPromise, postsPromise, feedPromise>>

\* readdir completes: getPosts filters the directories, issues every readFile
\* and suspends on Promise.all.
ReaddirDone(k) ==
    /\ pc[k] = "readdir"
    /\ LET names == DirectoryNames(root)
       IN  /\ dirs' = [dirs EXCEPT ![k] = names]
           /\ reads' = [reads EXCEPT ![k] = [i \in 1..Len(names) |-> Pending]]
           /\ allPromise' = [allPromise EXCEPT ![k] = PromiseAll(Len(names))]
    /\ pc' = [pc EXCEPT ![k] = "readFiles"]
    /\ UNCHANGED <<root, files, calls, postsPromise, feedPromise>>

\* The readFile of index i completes, in any order with the others, and its
\* reaction in Promise.all runs.
ReadFileDone(k, i) ==
    /\ reads[k][i] = Pending
    /\ LET r == ReadFile(dirs[k][i])
       IN  /\ reads' = [reads EXCEPT ![k][i] = r]
           /\ allPromise' = [allPromise EXCEPT ![k] =
                  IF r.state = "fulfilled"
                  THEN ResolveElement(@, i, r.value)
                  ELSE RejectElement(@, r.reason)]
    /\ UNCHANGED <<root, files, calls, pc, dirs, postsPromise, feedPromise>>

\* Promise.all has settled: getPosts resumes and runs to its return or throw.
GetPostsResume(k) ==
    /\ pc[k] = "readFiles"
    /\ allPromise[k].state # "pending"
    /\ postsPromise' = [postsPromise EXCEPT ![k] =
           IF allPromise[k].state = "rejected"
           THEN Rejected(allPromise[k].reason)
           ELSE GetPostsBody(dirs[k], allPromise[k].values)]
    /\ pc' = [pc EXCEPT ![k] = "getPosts"]
    /\ UNCHANGED <<root, files, calls, dirs, reads, allPromise, feedPromise>>

\* getPosts has settled: generateFeed resumes, builds the feed and returns, or
\* rethrows.
GenerateFeedResume(k) ==
    /\ pc[k] = "getPosts"
    /\ feedPromise' = [feedPromise EXCEPT ![k] =
           IF postsPromise[k].state = "rejected"
           THEN Rejected(postsPromise[k].reason)
           ELSE Fulfilled(AddItems(NewFeed(k), postsPromise[k].value))]
    /\ pc' = [pc EXCEPT ![k] = "done"]
    /\ UNCHANGED <<root, files, calls, dirs, reads, allPromise, postsPromise>>

Next ==
    \/ \E k \in calls : Call(k)
    \/ \E k \in calls : ReaddirDone(k)
    \/ \E k \in calls : \E i \in 1..Len(reads[k]) : ReadFileDone(k, i)
    \/ \E k \in calls : GetPostsResume(k)
    \/ \E k \in calls : GenerateFeedResume(k)

Spec == Init /\ [][Next]_vars

SpecConc == InitConc /\ [][Next]_vars

-----------------------------------------------------------------------------
(* Properties *)

\* The directories of ./public/, in scan order, read off the listing itself.
PostDirs == DirectoryNames(root)

Unreadable == {d \in DOMAIN files : files[d] = Missing}

Malformed == {d \in DOMAIN files : files[d] # Missing /\ ~files[d].yaml}

ReadErrors == {[code |-> "ENOENT", path |-> "./public/" \o d \o "/index.md"] : d \in Unreadable}

IsFulfilled(p) == p.state = "fulfilled"

IsRejected(p) == p.state = "rejected"

Started(k) == pc[k] \notin {"start", "readdir"}

Time(post) == DateParse(Get(post, "date"))

DatesParse(posts) == \A i \in 1..Len(posts) : ~Time(posts[i]).nan

\* The posts in directory order, before the sort.
Unsorted(k) == [i \in 1..Len(dirs[k]) |-> Merge(dirs[k][i], files[dirs[k][i]].data)]

\* C1: whenever getPosts returns posts whose dates all parse, every adjacent
\* pair of the list is in date-descending order (equal dates included), and
\* the posts old (2023-01-01) and new (2024-06-01) come out as [new, old]
\* whatever the scan order.
C1_SortedByDateDescending ==
    \A k \in calls :
        IsFulfilled(postsPromise[k]) /\ DatesParse(postsPromise[k].value) =>
            LET posts == postsPromise[k].value
            IN  /\ \A i \in 1..(Len(posts) - 1) : Time(posts[i]).v >= Time(posts[i + 1]).v
                /\ (Range(dirs[k]) = {"old", "new"} /\ files["old"] = FmOld /\ files["new"] = FmNew)
                       => posts = <<Merge("new", FmNew.data), Merge("old", FmOld.data)>>

\* Three posts with parsing dates came back, two of them on the same day under
\* different date strings, and the scan order was not the sorted order.
C1_Witness ==
    /\ IsFulfilled(postsPromise[1])
    /\ Len(postsPromise[1].value) = 3
    /\ DatesParse(postsPromise[1].value)
    /\ \E i, j \in 1..3 :
          /\ Get(postsPromise[1].value[i], "date") # Get(postsPromise[1].value[j], "date")
          /\ Time(postsPromise[1].value[i]) = Time(postsPromise[1].value[j])
    /\ Time(Unsorted(1)[1]).v < Time(Unsorted(1)[2]).v

\* C2: when the index.md of some post directory cannot be read, getPosts and
\* generateFeed never return a value, in any order of completion of the reads:
\* both end rejected with the read error of an unreadable index.md.
C2_ReadFailureAborts ==
    \A k \in calls :
        Unreadable # {} =>
            /\ ~IsFulfilled(postsPromise[k])
            /\ ~IsFulfilled(feedPromise[k])
            /\ IsRejected(postsPromise[k]) => postsPromise[k].reason \in ReadErrors
            /\ IsRejected(feedPromise[k]) => feedPromise[k].reason \in ReadErrors
            /\ pc[k] = "done" => IsRejected(feedPromise[k])

\* generateFeed ended rejected on a read error although another read had
\* succeeded and a third was still pending.
C2_Witness ==
    /\ pc[1] = "done"
    /\ IsRejected(feedPromise[1])
    /\ feedPromise[1].reason \in ReadErrors
    /\ \E i, j \in 1..Len(reads[1]) : IsFulfilled(reads[1][i]) /\ reads[1][j] = Pending

\* C8: Promise.all is fulfilled, a post list is returned and a feed is built
\* only in states where every read of the invocation has been issued and has
\* completed successfully.
C8_ListOnlyAfterAllReads ==
    \A k \in calls :
        \/ ~Started(k) /\ ~IsFulfilled(postsPromise[k]) /\ ~IsFulfilled(feedPromise[k])
        \/ /\ Started(k)
           /\ (IsFulfilled(allPromise[k]) \/ IsFulfilled(postsPromise[k]) \/ IsFulfilled(feedPromise[k]))
                  => /\ Len(reads[k]) = Cardinality({i \in 1..Len(root) : root[i].isDirectory})
                     /\ \A i \in 1..Len(reads[k]) : IsFulfilled(reads[k][i])

\* A list of three posts was returned after the reads had completed.
C8_Witness ==
    /\ IsFulfilled(postsPromise[1])
    /\ Len(postsPromise[1].value) = 3
    /\ \A i \in 1..3 : IsFulfilled(reads[1][i])

\* C10: the value Promise.all holds at index i is what was read from
\* dirs[i]/index.md, whatever the order of completion, and every returned post
\* carries the title, date and spoiler of the index.md of the directory whose
\* name it got as slug.
C10_ContentAlignedWithDirs ==
    \A k \in calls :
        /\ \A i \in 1..Len(reads[k]) :
              IsFulfilled(reads[k][i]) => allPromise[k].values[i] = files[dirs[k][i]]
        /\ IsFulfilled(postsPromise[k]) =>
              /\ Len(postsPromise[k].value) = Len(dirs[k])
              /\ \A i \in 1..Len(dirs[k]) :
                    \E j \in 1..Len(postsPromise[k].value) :
                        LET post == postsPromise[k].value[j]
                            data == files[dirs[k][i]].data
                        IN  /\ \A key \in {"title", "date", "spoiler"} : Get(post, key) = Get(data, key)
                            /\ "slug" \notin DOMAIN data => post.slug = dirs[k][i]

\* Three directories with three different documents were read and their posts
\* came back.
C10_Witness ==
    /\ IsFulfilled(postsPromise[1])
    /\ Len(dirs[1]) = 3
    /\ \A i, j \in 1..3 : i # j => files[dirs[1][i]] # files[dirs[1][j]]

\* C3: every entry of a built feed is made from the post at its place in the
\* list getPosts returned: id and link are the site URL, the post's slug and a
\* slash, the title is the post's title, the description its spoiler and the
\* date the parsed value of its date; directory a holding {title: "A",
\* date: "2024-01-01", spoiler: "S"} yields an entry with title "A",
\* description "S", link <site>a/ and the date 2024-01-01 parses to.
C3_EntryFields ==
    \A k \in calls :
        IsFulfilled(feedPromise[k]) =>
            LET items == feedPromise[k].value.items
                posts == postsPromise[k].value
            IN  /\ \A i \in 1..Len(items) :
                      /\ i <= Len(posts)
                      /\ items[i].id = "https://github.psriram.com/" \o posts[i].slug \o "/"
                      /\ items[i].link = items[i].id
                      /\ items[i].title = Get(posts[i], "title")
                      /\ items[i].description = Get(posts[i], "spoiler")
                      /\ items[i].date.time = DateParse(Get(posts[i], "date"))
                /\ ("a" \in Range(dirs[k]) /\ files["a"] = FmA) =>
                      \E i \in 1..Len(items) :
                          /\ items[i].title = "A"
                          /\ items[i].description = "S"
                          /\ items[i].link = "https://github.psriram.com/a/"
                          /\ items[i].date.time = Num(19723)

\* A feed was built from directory a with the front-matter of the example and
\* from a second post.
C3_Witness ==
    /\ IsFulfilled(feedPromise[1])
    /\ "a" \in Range(dirs[1])
    /\ files["a"] = FmA
    /\ Len(feedPromise[1].value.items) = 2

\* C4: a built feed has exactly one entry per post getPosts returned, which is
\* one per post directory, entry i being the entry of post i; posts with the
\* same id are both kept and no count cuts the list.
C4_OneEntryPerPost ==
    \A k \in calls :
        IsFulfilled(feedPromise[k]) =>
            LET items == feedPromise[k].value.items
                posts == postsPromise[k].value
            IN  /\ Len(items) = Len(posts)
                /\ Len(items) = Cardinality({i \in 1..Len(root) : root[i].isDirectory})
                /\ \A i \in 1..Len(items) : items[i] = FeedItem(posts[i])

\* A feed of three entries, two of which have the same id.
C4_Witness ==
    /\ IsFulfilled(feedPromise[1])
    /\ Len(feedPromise[1].value.items) = 3
    /\ \E i, j \in 1..3 :
          i # j /\ feedPromise[1].value.items[i].id = feedPromise[1].value.items[j].id

\* C5: the list getPosts returns has pairwise distinct slugs whose set is the
\* set of subdirectory names of the posts root, and only directories are read.
C5_SlugsAreTheDirectories ==
    \A k \in calls :
        /\ Started(k) => Len(reads[k]) = Cardinality({i \in 1..Len(root) : root[i].isDirectory})
        /\ IsFulfilled(postsPromise[k]) =>
              LET posts == postsPromise[k].value
              IN  /\ \A i, j \in 1..Len(posts) : i # j => posts[i].slug # posts[j].slug
                  /\ {posts[i].slug : i \in 1..Len(posts)} = {root[i].name : i \in {j \in 1..Len(root) : root[j].isDirectory}}

\* C6: on a posts root without subdirectories getPosts returns the empty list
\* and generateFeed a feed without entries; neither is rejected.
C6_EmptyRoot ==
    \A k \in calls :
        (\A i \in 1..Len(root) : ~root[i].isDirectory) =>
            /\ ~IsRejected(postsPromise[k])
            /\ ~IsRejected(feedPromise[k])
            /\ pc[k] \in {"getPosts", "done"} => postsPromise[k] = Fulfilled(<<>>)
            /\ pc[k] = "done" =>
                  /\ IsFulfilled(feedPromise[k])
                  /\ feedPromise[k].value.items = <<>>

\* generateFeed has returned on a root that holds a plain file and no directory.
C6_Witness ==
    /\ pc[1] = "done"
    /\ Len(root) = 1
    /\ ~root[1].isDirectory
    /\ IsFulfilled(feedPromise[1])

\* C7: when every index.md is read and parsed, a front-matter that lacks title,
\* date or spoiler does not reject getPosts or generateFeed: each directory's
\* post is returned without the lacking key and has a feed entry in which the
\* lacking field is undefined (an invalid date for date), the fields present
\* and the entries of the other posts being those of their own front-matter.
C7_MissingFieldsCarriedThrough ==
    \A k \in calls :
        (pc[k] = "done" /\ Unreadable = {} /\ Malformed = {}) =>
            /\ IsFulfilled(postsPromise[k])
            /\ IsFulfilled(feedPromise[k])
            /\ Len(feedPromise[k].value.items) = Len(dirs[k])
            /\ \A n \in 1..Len(dirs[k]) :
                  LET data == files[dirs[k][n]].data
                  IN  \E i \in 1..Len(dirs[k]) :
                          LET post == postsPromise[k].value[i]
                              item == feedPromise[k].value.items[i]
                          IN  /\ DOMAIN post = DOMAIN data \cup {"slug"}
                              /\ item.title = IF "title" \in DOMAIN data THEN data.title ELSE Undefined
                              /\ item.description = IF "spoiler" \in DOMAIN data THEN data.spoiler ELSE Undefined
                              /\ item.date.time = IF "date" \in DOMAIN data THEN DateParse(data.date) ELSE NaN
                              /\ "slug" \notin DOMAIN data => item.link = site_url \o dirs[k][n] \o "/"

\* A feed was built from a post without spoiler, a post without title and date
\* and a complete post.
C7_Witness ==
    /\ pc[1] = "done"
    /\ IsFulfilled(feedPromise[1])
    /\ {FmSuspense, FmDraft, FmNew} = {files[d] : d \in DOMAIN files}

\* What generateFeed returns when it runs alone on a readable file system.
FeedAlone ==
    LET posts == GetPostsBody(PostDirs, [i \in 1..Len(PostDirs) |-> files[PostDirs[i]]])
    IN  IF IsRejected(posts) THEN posts
        ELSE Fulfilled(AddItems([options |-> feedOptions, items |-> <<>>], posts.value))

====
